---- MODULE Spec2Model ----
(***************************************************************************)
(* A model of src/walker.ts of svg-to-excalidraw: the recursive walk over  *)
(* an SVG DOM that converts each supported element into Excalidraw         *)
(* primitives.                                                             *)
(*                                                                         *)
(* The DOM is a sequence of node records in document (pre-)order; a node   *)
(* is named by its index.  Node 1 is the Document, node 2 the root svg.    *)
(* Elements cloned by walkers.use are appended to the sequence; they have  *)
(* no parent and no children (cloneNode() is shallow).                     *)
(*                                                                         *)
(* walk() is recursive.  A call in tail position (every shape handler      *)
(* ends with walk(args, tw.nextNode())) continues in the same frame of the *)
(* modelled stack; walkers.g and walkers.use, which do work after a nested *)
(* walk returns, keep a suspended frame below the nested one.              *)
(***************************************************************************)
EXTENDS Integers, Sequences, FiniteSets, TLC

(* ---------------------------------------------------------------- bounds *)

\* Number of elements below the root svg in the generated element trees.
MaxNodes == 4

\* Frames of the modelled call stack the engine has room for beyond those
\* the nesting of a document can need; a call that would go deeper gives up
\* with a RangeError ("Maximum call stack size exceeded").
MaxStack == 2

StackLimit == MaxNodes + MaxStack

(* ------------------------------------------------------------ attributes *)

\* getAttribute() of an attribute the element does not carry (null).
Absent == "\\null"

AttrNames ==
  { "id", "class", "href", "xlink:href", "x", "y", "width", "height",
    "r", "cx", "cy", "rx", "ry", "points", "d", "fill", "fill-rule",
    "stroke", "stroke-width", "font-size", "transform" }

\* A JavaScript falsy attribute value: null or the empty string.
Falsy(v) == v = Absent \/ v = ""

\* { ...a, ...b }: the fields of b override those of a.
Spread(a, b) == b @@ a

EmptyMap == [k \in {} |-> 0]

Last(s) == s[Len(s)]

Front(s) == SubSeq(s, 1, Len(s) - 1)

(* ------------------------------------------------------------------- DOM *)

VARIABLES
  nodes,      \* the DOM: document nodes, then the clones made by walkers.use
  stack,      \* the call stack of walk(): frames, innermost last
  scenes,     \* scenes[1] is the output scene, the rest are tempScenes
  nextId,     \* the next identifier randomId() hands out
  status,     \* "running", "done" (walk returned) or "error" (it threw)
  error,      \* the message of the error thrown, "" when none
  dispatched, \* history: the nodes handed to a handler, in order
  groupOf,    \* history: the Group records made, in order
  localGroups \* history: the localGroup of each path handled, in order

vars ==
  <<nodes, stack, scenes, nextId, status, error, dispatched, groupOf,
    localGroups>>

Node(tag, parent, attrs, content) ==
  [tag |-> tag, parent |-> parent, attrs |-> attrs, content |-> content,
   origin |-> 0, def |-> 0, use |-> 0]

\* The element of the document a node stems from: itself, or for a clone
\* the use element of the document whose resolution made it.
Origin(n) == IF nodes[n].origin = 0 THEN n ELSE nodes[n].origin

ChildrenOf(ns, n) == {m \in 1..Len(ns) : ns[m].parent = n}

Min(S) == CHOOSE x \in S : \A y \in S : x <= y

Max(S) == CHOOSE x \in S : \A y \in S : x >= y

\* Node.firstChild, Node.nextSibling, Node.parentNode; 0 stands for null.
FirstChild(n) ==
  LET c == ChildrenOf(nodes, n) IN IF c = {} THEN 0 ELSE Min(c)

NextSiblingOf(n) ==
  LET s == {m \in ChildrenOf(nodes, nodes[n].parent) : m > n}
  IN IF nodes[n].parent = 0 \/ s = {} THEN 0 ELSE Min(s)

ParentOf(n) == nodes[n].parent

\* el.getAttribute(name); a node records the attributes it carries.
Attr(n, name) ==
  IF name \in DOMAIN nodes[n].attrs THEN nodes[n].attrs[name] ELSE Absent

\* Is m inside the subtree of n (n itself included)?
RECURSIVE InSubtree(_, _)
InSubtree(m, n) ==
  IF m = n THEN TRUE
  ELSE IF m = 0 \/ nodes[m].parent = 0 THEN FALSE
  ELSE InSubtree(nodes[m].parent, n)

(* ------------------------------------------------------------ TreeWalker *)

SUPPORTED_TAGS ==
  { "svg", "path", "g", "text", "use", "circle", "ellipse", "rect",
    "polyline", "polygon" }

\* nodeValidator: TRUE is FILTER_ACCEPT, FALSE is FILTER_REJECT.  A text
\* node has no tagName, so it is rejected as well.
nodeValidator(n) == nodes[n].tag \in SUPPORTED_TAGS

\* TreeWalker.nextNode() of the DOM standard, for a filter that only ever
\* accepts or rejects.  Descend goes to the first child unless the node was
\* rejected; Follow goes to the next node after the subtree, never leaving
\* the walker's root.  The result is the new currentNode, 0 for null (the
\* currentNode then stays where it was).
RECURSIVE TwDescend(_, _, _), TwFollow(_, _)
TwDescend(root, node, accepted) ==
  IF accepted /\ FirstChild(node) # 0
  THEN LET c == FirstChild(node)
       IN IF nodeValidator(c) THEN c ELSE TwDescend(root, c, FALSE)
  ELSE TwFollow(root, node)

TwFollow(root, temporary) ==
  IF temporary = 0 \/ temporary = root THEN 0
  ELSE IF NextSiblingOf(temporary) # 0
       THEN LET s == NextSiblingOf(temporary)
            IN IF nodeValidator(s) THEN s ELSE TwDescend(root, s, FALSE)
       ELSE TwFollow(root, ParentOf(temporary))

nextNode(tw) == TwDescend(tw.root, tw.cur, TRUE)

\* TreeWalker.nextSibling() of the DOM standard ("traverse siblings").  A
\* rejected sibling is passed over with its subtree; when the siblings are
\* used up the search goes on at the parent's siblings only if the parent
\* is itself not accepted by the filter, and ends with null at an accepted
\* parent or at the root.
RECURSIVE TwSiblings(_, _)
TwSiblings(root, node) ==
  IF NextSiblingOf(node) # 0
  THEN LET s == NextSiblingOf(node)
       IN IF nodeValidator(s) THEN s ELSE TwSiblings(root, s)
  ELSE LET p == ParentOf(node)
       IN IF p = 0 \/ p = root THEN 0
          ELSE IF nodeValidator(p) THEN 0
          ELSE TwSiblings(root, p)

nextSibling(tw) == IF tw.cur = tw.root THEN 0 ELSE TwSiblings(tw.root, tw.cur)

\* createTreeWalker(dom): a walker rooted and positioned at dom.
createTreeWalker(dom) == [root |-> dom, cur |-> dom]

\* The walker after a call that returned n: currentNode moves only when the
\* call found a node.
Moved(tw, n) == IF n = 0 THEN tw ELSE [tw EXCEPT !.cur = n]

(* ------------------------------------------------- attribute collaborators *)

\* has(el, name) and get(el, name, default) of ./attributes.
has(el, name) == Attr(el, name) # Absent

get(el, name, default) ==
  IF Attr(el, name) # Absent THEN Attr(el, name) ELSE default

\* The numeric strings the documents use, with the numbers they read as.
NumOf == [s \in {"0", "1", "2", "3", "5"} |->
            CASE s = "0" -> 0 [] s = "1" -> 1 [] s = "2" -> 2
              [] s = "3" -> 3 [] s = "5" -> 5]

\* getNum(el, name, default): the attribute coerced to a number, the default
\* when it is missing or is no number.
getNum(el, name, default) ==
  IF Attr(el, name) \in DOMAIN NumOf
  THEN NumOf[Attr(el, name)] ELSE default

\* presAttrsToElementValues(el): the presentation attributes the element
\* declares, as fields of a primitive.
presAttrsToElementValues(el) ==
  (IF has(el, "stroke")
     THEN [strokeColor |-> Attr(el, "stroke")] ELSE EmptyMap)
  @@ (IF has(el, "fill")
        THEN [backgroundColor |-> Attr(el, "fill")] ELSE EmptyMap)
  @@ (IF has(el, "stroke-width")
        THEN [strokeWidth |-> getNum(el, "stroke-width", 1)] ELSE EmptyMap)

\* filterAttrsToElementValues(el): the documents modelled carry no filter
\* attribute, for which the result is the empty map.
filterAttrsToElementValues(el) == EmptyMap

\* getGroupAttrs(groups): the presentation fields the enclosing groups
\* declare, an inner group overriding an outer one.
RECURSIVE getGroupAttrs(_)
getGroupAttrs(groups) ==
  IF groups = <<>> THEN EmptyMap
  ELSE Spread(getGroupAttrs(Front(groups)),
              Spread(presAttrsToElementValues(Last(groups).element),
                     filterAttrsToElementValues(Last(groups).element)))

\* presAttrs(el, groups)
presAttrs(el, groups) ==
  Spread(Spread(getGroupAttrs(groups), presAttrsToElementValues(el)),
         filterAttrsToElementValues(el))

\* groups.map((g) => g.id)
GroupIds(groups) == [i \in 1..Len(groups) |-> groups[i].id]

(* -------------------------------------------------- geometry collaborators *)

\* A transform x' = a*x + e, y' = d*y + f (the scale and translate entries
\* 0, 5, 12 and 13 of the 4x4 matrix; the documents use no rotation).
Identity == [a |-> 1, d |-> 1, e |-> 0, f |-> 0]

\* mat4.multiply(out, m, n): apply n, then m.
Multiply(m, n) ==
  [a |-> m.a * n.a, d |-> m.d * n.d,
   e |-> m.a * n.e + m.e, f |-> m.d * n.f + m.f]

\* The transform attribute values the documents use.
TransformOf(v) ==
  CASE v = "translate(1,2)" -> [a |-> 1, d |-> 1, e |-> 1, f |-> 2]
    [] v = "scale(-1,1)" -> [a |-> -1, d |-> 1, e |-> 0, f |-> 0]
    [] OTHER -> Identity

\* getTransformMatrix(el, groups): the transforms of the enclosing groups,
\* outermost first, then the element's own.
RECURSIVE GroupMatrix(_)
GroupMatrix(groups) ==
  IF groups = <<>> THEN Identity
  ELSE Multiply(GroupMatrix(Front(groups)),
                TransformOf(Attr(Last(groups).element, "transform")))

getTransformMatrix(el, groups) ==
  Multiply(GroupMatrix(groups), TransformOf(Attr(el, "transform")))

\* transformPoints(points, mat)
transformPoints(points, mat) ==
  [i \in 1..Len(points) |->
     <<mat.a * points[i][1] + mat.e, mat.d * points[i][2] + mat.f>>]

\* points.map(([_x, _y]) => [_x - x, _y - y])
Relative(points, x, y) ==
  [i \in 1..Len(points) |-> <<points[i][1] - x, points[i][2] - y>>]

\* dimensionsFromPoints(points): the extent of the bounding box.
dimensionsFromPoints(points) ==
  LET xs == {points[i][1] : i \in 1..Len(points)}
      ys == {points[i][2] : i \in 1..Len(points)}
  IN <<Max(xs) - Min(xs), Max(ys) - Min(ys)>>

\* getWindingOrder(points): the sign of the sum over the edges of the closed
\* polygon of (x2 - x1) * (y2 + y1).
RECURSIVE EdgeSum(_, _)
EdgeSum(points, i) ==
  IF i > Len(points) THEN 0
  ELSE LET p == points[i]
           q == IF i = Len(points) THEN points[1] ELSE points[i + 1]
       IN (q[1] - p[1]) * (q[2] + p[2]) + EdgeSum(points, i + 1)

getWindingOrder(points) ==
  IF EdgeSum(points, 1) > 0 THEN "clockwise" ELSE "counterclockwise"

\* Two triangles of opposite orientation and a square, the sub-polygons of
\* the path data below.
TriA == <<<<0, 0>>, <<2, 0>>, <<2, 2>>>>

TriB == <<<<1, 1>>, <<2, 2>>, <<2, 1>>>>

SquareA == <<<<3, 0>>, <<5, 0>>, <<5, 2>>, <<3, 2>>>>

\* pointsOnPath(d): the sub-polygons of the path data the documents use.
pointsOnPath(d) ==
  CASE d = "M0 0L2 0L2 2Z" -> <<TriA>>
    [] d = "M0 0L2 0L2 2ZM1 1L2 2L2 1Z" -> <<TriA, TriB>>
    [] d = "M0 0L2 0L2 2ZM3 0L5 0L5 2L3 2Z" -> <<TriA, SquareA>>
    [] d = "M1 1L2 2L2 1ZM0 0L2 0L2 2ZM3 0L5 0L5 2L3 2Z"
         -> <<TriB, TriA, SquareA>>
    [] d = "M0 0L2 0L2 2ZM1 1L2 2L2 1ZM1 1L2 2L2 1Z" -> <<TriA, TriB, TriB>>
    [] OTHER -> <<>>

\* pointsAttrToPoints(el): the point list of a polygon or polyline.
pointsAttrToPoints(el) ==
  CASE Attr(el, "points") = "0,0 2,0 2,2" -> TriA
    [] Attr(el, "points") = "3,0 5,0 5,2 3,2" -> SquareA
    [] OTHER -> <<>>

(* ------------------------------------------------------------- primitives *)

\* The default-valued record every createEx...() starts from.
ExBase(type) ==
  [type |-> type, x |-> 0, y |-> 0, width |-> 0, height |-> 0,
   strokeColor |-> "#000000", backgroundColor |-> "transparent",
   strokeWidth |-> 1, groupIds |-> <<>>]

createExRect == ExBase("rectangle") @@ [strokeSharpness |-> "sharp"]

createExEllipse == ExBase("ellipse")

createExLine == ExBase("line") @@ [points |-> <<>>]

createExDraw == ExBase("draw") @@ [points |-> <<>>]

createExText ==
  ExBase("text") @@ [text |-> "", originalText |-> "", fontSize |-> 20]

\* History fields of a primitive: the element of the document it was made
\* for (src), the element the handler read (el: src itself, or the merged
\* clone of a use element) and its position among the primitives of el.
Made(el, sub) == [src |-> Origin(el), el |-> el, sub |-> sub]

(* ------------------------------------------------------ reference merging *)

skippedUseAttrs == {"id"}

allwaysPassedUseAttrs == {"x", "y", "width", "height", "href", "xlink:href"}

\* getDefElWithCorrectAttrs(defEl, useEl): a shallow clone of defEl that
\* takes over the attributes of useEl the reduce lets through.  An attribute
\* of useEl is passed over when its VALUE is in skippedUseAttrs (the code
\* tests attr.value); otherwise it is set on the clone when defEl lacks it
\* or it is one of allwaysPassedUseAttrs.
MergedAttr(defEl, useEl, a) ==
  IF Attr(useEl, a) = Absent THEN Attr(defEl, a)
  ELSE IF Attr(useEl, a) \in skippedUseAttrs THEN Attr(defEl, a)
  ELSE IF Attr(defEl, a) = Absent \/ a \in allwaysPassedUseAttrs
    THEN Attr(useEl, a)
  ELSE Attr(defEl, a)

getDefElWithCorrectAttrs(defEl, useEl) ==
  [tag |-> nodes[defEl].tag,
   parent |-> 0,
   attrs |-> [a \in {b \in AttrNames : MergedAttr(defEl, useEl, b) # Absent}
                |-> MergedAttr(defEl, useEl, a)],
   content |-> "",
   origin |-> Origin(useEl), def |-> defEl, use |-> useEl]

\* The selectors the documents use in href and xlink:href.
SelectorOf(sel) ==
  CASE sel = "#t" -> [by |-> "id", name |-> "t"]
    [] sel = "#u" -> [by |-> "id", name |-> "u"]
    [] sel = "#nope" -> [by |-> "id", name |-> "nope"]
    [] sel = "circle" -> [by |-> "tag", name |-> "circle"]
    [] OTHER -> [by |-> "none", name |-> ""]

\* root.querySelector(sel): the first element of the document, in document
\* order, that the selector matches; 0 for null.  Clones are not part of
\* the document.
querySelector(sel) ==
  LET s == SelectorOf(sel)
      m == {n \in 2..Len(nodes) :
              /\ nodes[n].origin = 0
              /\ \/ s.by = "id" /\ Attr(n, "id") = s.name
                 \/ s.by = "tag" /\ nodes[n].tag = s.name}
  IN IF m = {} THEN 0 ELSE Min(m)

(* ------------------------------------------------------ shape primitives *)

\* walkers.circle: the ellipse primitive of a circle element.
CirclePrim(el, groups) ==
  LET r == getNum(el, "r", 0)
      d == r * 2
      x == getNum(el, "x", 0) + getNum(el, "cx", 0) - r
      y == getNum(el, "y", 0) + getNum(el, "cy", 0) - r
      mat == getTransformMatrix(el, groups)
      result == Multiply(mat, [a |-> d, d |-> d, e |-> x, f |-> y])
  IN Spread(Spread(createExEllipse, presAttrs(el, groups)),
            [x |-> result.e, y |-> result.f,
             width |-> result.a, height |-> result.d,
             groupIds |-> GroupIds(groups)])

\* walkers.ellipse
EllipsePrim(el, groups) ==
  LET rx == getNum(el, "rx", 0)
      ry == getNum(el, "ry", 0)
      x == getNum(el, "x", 0) + getNum(el, "cx", 0) - rx
      y == getNum(el, "y", 0) + getNum(el, "cy", 0) - ry
      mat == getTransformMatrix(el, groups)
      result == Multiply(mat, [a |-> rx * 2, d |-> ry * 2, e |-> x, f |-> y])
  IN Spread(Spread(createExEllipse, presAttrs(el, groups)),
            [x |-> result.e, y |-> result.f,
             width |-> result.a, height |-> result.d,
             groupIds |-> GroupIds(groups)])

\* walkers.rect: no groupIds field is set, the one of createExRect() and of
\* presAttrs() stays.
RectPrim(el, groups) ==
  LET x == getNum(el, "x", 0)
      y == getNum(el, "y", 0)
      w == getNum(el, "width", 0)
      h == getNum(el, "height", 0)
      mat == getTransformMatrix(el, groups)
      result == Multiply(mat, [a |-> w, d |-> h, e |-> x, f |-> y])
      isRound == has(el, "rx") \/ has(el, "ry")
  IN Spread(Spread(createExRect, presAttrs(el, groups)),
            [x |-> result.e, y |-> result.f,
             width |-> result.a, height |-> result.d,
             strokeSharpness |-> IF isRound THEN "round" ELSE "sharp"])

\* walkers.polygon and walkers.polyline, for a non-empty point list; the
\* polygon always closes the line, the polyline unless fill is "none".
LinePrim(el, groups, closed) ==
  LET points == pointsAttrToPoints(el)
      mat == getTransformMatrix(el, groups)
      transformedPoints == transformPoints(points, mat)
      x == transformedPoints[1][1]
      y == transformedPoints[1][2]
      relativePoints == Relative(transformedPoints, x, y)
      dims == dimensionsFromPoints(relativePoints)
  IN Spread(Spread(Spread(createExLine, getGroupAttrs(groups)),
                   presAttrsToElementValues(el)),
            [points |-> relativePoints
                          \o (IF closed THEN <<<<0, 0>>>> ELSE <<>>),
             x |-> x, y |-> y, width |-> dims[1], height |-> dims[2]])

PolygonPrim(el, groups) == LinePrim(el, groups, TRUE)

PolylinePrim(el, groups) ==
  LET hasFill == has(el, "fill")
      fill == get(el, "fill", Absent)
      shouldFill == ~hasFill \/ (hasFill /\ fill # "none")
  IN LinePrim(el, groups, shouldFill)

(* ------------------------------------------------------------------ text *)

\* The elements of a finite set of numbers, ascending.
RECURSIVE Sorted(_)
Sorted(S) == IF S = {} THEN <<>> ELSE <<Min(S)>> \o Sorted(S \ {Min(S)})

\* el.childNodes, in document order.
childNodes(el) == Sorted(ChildrenOf(nodes, el))

\* !root.documentElement.innerHTML.includes("excalidraw"): the documents
\* carry the marker, if at all, as the content of a node.
adjustHeight ==
  ~ \E n \in 1..Len(nodes) :
      nodes[n].origin = 0 /\ nodes[n].content = "excalidraw"

\* The font size of a text element.  The documents carry no style element,
\* so no rule of a style sheet applies and the attribute or the default of
\* 10 decides.
TextFontSize(el) == getNum(el, "font-size", 10)

\* The primitive of a text node child of a text element.
TextNodePrim(el, groups, child) ==
  LET fontSize == TextFontSize(el)
      x == getNum(el, "x", 0)
      y == getNum(el, "y", 0)
      mat == getTransformMatrix(el, groups)
      result == Multiply(mat, [a |-> 1, d |-> 1, e |-> x, f |-> y])
      textContent == nodes[child].content
      size == IF fontSize = 0 THEN 10 ELSE fontSize
  IN Spread(Spread(createExText, presAttrs(el, groups)),
            [x |-> result.e,
             y |-> IF adjustHeight THEN result.f - size ELSE result.f,
             originalText |-> textContent, fillStyle |-> "hachure",
             text |-> textContent,
             strokeColor |-> IF has(el, "fill") THEN get(el, "fill", Absent)
                             ELSE "#1E1E1E",
             backgroundColor |-> "transparent",
             width |-> 8 * Len(textContent), lineHeight |-> <<3, 2>>,
             height |-> 15, fontSize |-> size, fontFamily |-> 2])

\* The primitive of a tspan child of a text element: what the tspan does
\* not declare it inherits from the text element.
TspanPrim(el, groups, childEl) ==
  LET fontSize == TextFontSize(el)
      x == getNum(el, "x", 0)
      y == getNum(el, "y", 0)
      mat == getTransformMatrix(el, groups)
      textContent == nodes[childEl].content
      childFontSize == IF has(childEl, "font-size")
                       THEN getNum(childEl, "font-size", 10) ELSE fontSize
      childFill == IF has(childEl, "fill") THEN get(childEl, "fill", Absent)
                   ELSE get(el, "fill", Absent)
      childX == IF has(childEl, "x") THEN getNum(childEl, "x", 0) ELSE x
      childY == IF has(childEl, "y") THEN getNum(childEl, "y", 0) ELSE y
      updatedResult ==
        Multiply(mat, [a |-> 1, d |-> 1, e |-> childX, f |-> childY])
      size == IF fontSize = 0 THEN 10 ELSE fontSize
  IN Spread(Spread(createExText, presAttrs(el, groups)),
            [x |-> updatedResult.e,
             y |-> IF adjustHeight THEN updatedResult.f - size
                   ELSE updatedResult.f,
             originalText |-> textContent, fillStyle |-> "hachure",
             text |-> textContent,
             strokeColor |-> IF has(el, "fill") \/ has(childEl, "fill")
                             THEN childFill ELSE "#1E1E1E",
             backgroundColor |-> "transparent",
             width |-> 8 * Len(textContent), lineHeight |-> <<3, 2>>,
             height |-> 15,
             fontSize |-> IF childFontSize = 0 THEN 10 ELSE childFontSize,
             fontFamily |-> 2])

\* The loop over el.childNodes of walkers.text: one primitive per text node
\* and per tspan, nothing for any other child.
RECURSIVE TextPrims(_, _, _, _)
TextPrims(el, groups, kids, i) ==
  IF i > Len(kids) THEN <<>>
  ELSE (CASE nodes[kids[i]].tag = "#text"
               -> <<TextNodePrim(el, groups, kids[i]) @@ Made(el, i)>>
          [] nodes[kids[i]].tag = "tspan"
               -> <<TspanPrim(el, groups, kids[i]) @@ Made(el, i)>>
          [] OTHER -> <<>>)
       \o TextPrims(el, groups, kids, i + 1)

(* ------------------------------------------------------------------ path *)

\* HoleBackground without the reading of "none" as "transparent".
HoleBackgroundKeepsNone(fillColor, initialWindingOrder, windingOrder) ==
  IF initialWindingOrder # windingOrder THEN "#FFFFFF" ELSE fillColor

\* The background of a sub-polygon of a fill-rule nonzero path: the fill
\* color, "none" read as "transparent", and white when the winding order
\* differs from that of the first sub-polygon.
HoleBackground(fillColor, initialWindingOrder, windingOrder) ==
  IF initialWindingOrder # windingOrder THEN "#FFFFFF"
  ELSE IF fillColor = "none" THEN "transparent"
  ELSE fillColor

\* The object literal of case "nonzero": the stroke fields come before the
\* spread of presAttrs(), the fields after it override it.
NonzeroFields(el, groups, rel, background, dims, x, y, localGroup) ==
  Spread(Spread(Spread(createExDraw,
                       [strokeWidth |-> 0, strokeColor |-> "#00000000"]),
                presAttrs(el, groups)),
         [points |-> rel, backgroundColor |-> background,
          width |-> dims[1], height |-> dims[2],
          x |-> x + getNum(el, "x", 0), y |-> y + getNum(el, "y", 0),
          groupIds |-> <<localGroup>>])

\* The object literal of case "evenodd": localGroup is not part of it.
EvenoddFields(el, groups, rel, dims, x, y, localGroup) ==
  Spread(Spread(createExDraw, presAttrs(el, groups)),
         [points |-> rel,
          width |-> dims[1], height |-> dims[2],
          x |-> x + getNum(el, "x", 0), y |-> y + getNum(el, "y", 0)])

\* The transformed and re-based points of sub-polygon idx.
SubPoints(el, groups, points, idx) ==
  transformPoints(points[idx], getTransformMatrix(el, groups))

SubRelative(el, groups, points, idx) ==
  LET tPoints == SubPoints(el, groups, points, idx)
  IN Relative(tPoints, tPoints[1][1], tPoints[1][2])

\* The elements walkers.path adds to the scene.  localGroup is the second
\* identifier the handler draws (at idx 0), fresh for this path.
PathElements(el, groups, localGroup) ==
  LET points == pointsOnPath(get(el, "d", Absent))
      fillColor == get(el, "fill", "transparent")
      fillRule == get(el, "fill-rule", "nonzero")
      initialWindingOrder == getWindingOrder(SubRelative(el, groups, points, 1))
  IN CASE fillRule = "nonzero" ->
            [idx \in 1..Len(points) |->
               LET tPoints == SubPoints(el, groups, points, idx)
                   rel == SubRelative(el, groups, points, idx)
               IN NonzeroFields(el, groups, rel,
                    HoleBackground(fillColor, initialWindingOrder,
                                   getWindingOrder(rel)),
                    dimensionsFromPoints(tPoints),
                    tPoints[1][1], tPoints[1][2], localGroup)
                  @@ Made(el, idx)]
       [] fillRule = "evenodd" ->
            [idx \in 1..Len(points) |->
               LET tPoints == SubPoints(el, groups, points, idx)
                   rel == SubRelative(el, groups, points, idx)
               IN EvenoddFields(el, groups, rel,
                    dimensionsFromPoints(tPoints),
                    tPoints[1][1], tPoints[1][2], localGroup)
                  @@ Made(el, idx)]
       [] OTHER -> <<>>

\* The number of randomId() calls of walkers.path: one before the switch,
\* one more at idx 0 of a nonzero or evenodd path with a sub-polygon.
PathIdsDrawn(el) ==
  IF get(el, "fill-rule", "nonzero") \in {"nonzero", "evenodd"}
     /\ pointsOnPath(get(el, "d", Absent)) # <<>>
  THEN 2 ELSE 1

(* ------------------------------------------------------------------ walk *)

\* The frame of a call of walk(args, nextNode): args.tw, args.scene (an
\* index into scenes), args.groups and nextNode.  pc is "walk" for a call
\* that is about to run, "g" and "use" for a handler waiting for the nested
\* walk it started; temp is the tempScene of a waiting walkers.use.
Frame(tw, scene, groups, node) ==
  [tw |-> tw, scene |-> scene, groups |-> groups, node |-> node,
   pc |-> "walk", temp |-> 0]

Top == stack[Len(stack)]

Running == status = "running" /\ stack # <<>>

\* walk() is about to hand the node to walkers[tag].
At(tag) ==
  /\ Running
  /\ Top.pc = "walk"
  /\ Top.node # 0
  /\ nodes[Top.node].tag = tag

\* walk(args, next) in tail position: the frame goes on with the node the
\* walker call returned.
Continue(frame, next) ==
  [frame EXCEPT !.tw = Moved(frame.tw, next), !.node = next, !.pc = "walk"]

Goto(next) == stack' = [stack EXCEPT ![Len(stack)] = Continue(Top, next)]

\* scene.elements.push(...) and scene.elements.concat(...)
Push(prims) == scenes' = [scenes EXCEPT ![Top.scene] = @ \o prims]

\* An error thrown: nothing catches it, every frame is left.
Throw(message) ==
  /\ status' = "error"
  /\ error' = message
  /\ stack' = <<>>

Dispatch == dispatched' = Append(dispatched, Top.node)

\* The names walkers has a handler for.
HandlerNames ==
  { "svg", "g", "use", "circle", "ellipse", "line", "polygon", "polyline",
    "text", "rect", "path" }

\* walk(args, null) returns; the caller is the frame below, or the
\* conversion is over.
WalkNull ==
  /\ Running
  /\ Top.pc = "walk"
  /\ Top.node = 0
  /\ stack' = Front(stack)
  /\ status' = IF Len(stack) = 1 THEN "done" ELSE status
  /\ UNCHANGED <<nodes, scenes, nextId, error, dispatched, groupOf, localGroups>>

\* walk() of a node walkers has no handler for: nothing is done.
WalkNoHandler ==
  /\ Running
  /\ Top.pc = "walk"
  /\ Top.node # 0
  /\ nodes[Top.node].tag \notin HandlerNames
  /\ stack' = Front(stack)
  /\ status' = IF Len(stack) = 1 THEN "done" ELSE status
  /\ UNCHANGED <<nodes, scenes, nextId, error, dispatched, groupOf, localGroups>>

Svg ==
  /\ At("svg")
  /\ Dispatch
  /\ Goto(nextNode(Top.tw))
  /\ UNCHANGED <<nodes, scenes, nextId, status, error, groupOf, localGroups>>

\* NextGroups without the new Group.
NextGroupsKept(groups, group) == groups

\* The groups the nested walk of walkers.g runs with.
NextGroups(groups, group) == Append(groups, group)

\* walkers.g up to the nested walk: a walker of its own for the subtree and
\* a copy of the groups with a new Group for the element.
G ==
  /\ At("g")
  /\ Dispatch
  /\ IF Len(stack) >= StackLimit
     THEN /\ Throw("RangeError")
          /\ UNCHANGED <<nodes, scenes, nextId, groupOf, localGroups>>
     ELSE LET group == [id |-> nextId, element |-> Top.tw.cur]
              tw == createTreeWalker(Top.tw.cur)
              next == nextNode(tw)
          IN /\ stack' = [stack EXCEPT ![Len(stack)].pc = "g"]
                           \o <<Frame(Moved(tw, next), Top.scene,
                                      NextGroups(Top.groups, group), next)>>
             /\ nextId' = nextId + 1
             /\ groupOf' = Append(groupOf, group)
             /\ UNCHANGED <<nodes, scenes, status, error, localGroups>>

\* walkers.g after the nested walk: walk(args, args.tw.nextSibling()).
GResume ==
  /\ Running
  /\ Top.pc = "g"
  /\ Goto(nextSibling(Top.tw))
  /\ UNCHANGED <<nodes, scenes, nextId, status, error, dispatched, groupOf, localGroups>>

\* Extracted with every element of tempScene taken over.
ExtractedAll(temp) == temp

\* What walkers.use moves from tempScene to the scene.
Extracted(temp) == <<Last(temp)>>

\* walkers.use up to the nested walk of the merged element.
Use ==
  /\ At("use")
  /\ Dispatch
  /\ LET useEl == Top.tw.cur
         href == Attr(useEl, "href")
         id == IF Falsy(href) THEN Attr(useEl, "xlink:href") ELSE href
         defEl == querySelector(id)
         finalEl == Len(nodes) + 1
         tempScene == Len(scenes) + 1
     IN IF Falsy(id)
        THEN /\ Throw("unable to get id of use element")
             /\ UNCHANGED <<nodes, scenes>>
        ELSE IF defEl = 0
        THEN /\ Throw("unable to find def element")
             /\ UNCHANGED <<nodes, scenes>>
        ELSE IF Len(stack) >= StackLimit
        THEN /\ Throw("RangeError")
             /\ UNCHANGED <<nodes, scenes>>
        ELSE /\ nodes' = Append(nodes, getDefElWithCorrectAttrs(defEl, useEl))
             /\ scenes' = Append(scenes, <<>>)
             /\ stack' = [stack EXCEPT ![Len(stack)].pc = "use",
                                       ![Len(stack)].temp = tempScene]
                           \o <<Frame(createTreeWalker(finalEl), tempScene,
                                      Top.groups, finalEl)>>
             /\ UNCHANGED <<status, error>>
  /\ UNCHANGED <<nextId, groupOf, localGroups>>

\* walkers.use after the nested walk: the last element of tempScene is
\* popped and pushed to the scene, and the walk goes on.
UseResume ==
  /\ Running
  /\ Top.pc = "use"
  /\ IF scenes[Top.temp] = <<>>
     THEN /\ Throw("Unable to create ex element")
          /\ UNCHANGED scenes
     ELSE /\ scenes' = [scenes EXCEPT
                          ![Top.temp] = Front(@),
                          ![Top.scene] = @ \o Extracted(scenes[Top.temp])]
          /\ Goto(nextNode(Top.tw))
          /\ UNCHANGED <<status, error>>
  /\ UNCHANGED <<nodes, nextId, dispatched, groupOf, localGroups>>

Circle ==
  /\ At("circle")
  /\ Dispatch
  /\ Push(<<CirclePrim(Top.tw.cur, Top.groups) @@ Made(Top.tw.cur, 1)>>)
  /\ Goto(nextNode(Top.tw))
  /\ UNCHANGED <<nodes, nextId, status, error, groupOf, localGroups>>

Ellipse ==
  /\ At("ellipse")
  /\ Dispatch
  /\ Push(<<EllipsePrim(Top.tw.cur, Top.groups) @@ Made(Top.tw.cur, 1)>>)
  /\ Goto(nextNode(Top.tw))
  /\ UNCHANGED <<nodes, nextId, status, error, groupOf, localGroups>>

\* walkers.line is unimplemented; only a merged use element gets here, the
\* tree walker rejects line elements.
Line ==
  /\ At("line")
  /\ Dispatch
  /\ Goto(nextNode(Top.tw))
  /\ UNCHANGED <<nodes, scenes, nextId, status, error, groupOf, localGroups>>

\* Reading transformedPoints[0][0] of an empty point list throws.
Polygon ==
  /\ At("polygon")
  /\ Dispatch
  /\ IF pointsAttrToPoints(Top.tw.cur) = <<>>
     THEN /\ Throw("TypeError")
          /\ UNCHANGED scenes
     ELSE /\ Push(<<PolygonPrim(Top.tw.cur, Top.groups)
                      @@ Made(Top.tw.cur, 1)>>)
          /\ Goto(nextNode(Top.tw))
          /\ UNCHANGED <<status, error>>
  /\ UNCHANGED <<nodes, nextId, groupOf, localGroups>>

Polyline ==
  /\ At("polyline")
  /\ Dispatch
  /\ IF pointsAttrToPoints(Top.tw.cur) = <<>>
     THEN /\ Throw("TypeError")
          /\ UNCHANGED scenes
     ELSE /\ Push(<<PolylinePrim(Top.tw.cur, Top.groups)
                      @@ Made(Top.tw.cur, 1)>>)
          /\ Goto(nextNode(Top.tw))
          /\ UNCHANGED <<status, error>>
  /\ UNCHANGED <<nodes, nextId, groupOf, localGroups>>

Text ==
  /\ At("text")
  /\ Dispatch
  /\ Push(TextPrims(Top.tw.cur, Top.groups, childNodes(Top.tw.cur), 1))
  /\ Goto(nextNode(Top.tw))
  /\ UNCHANGED <<nodes, nextId, status, error, groupOf, localGroups>>

Rect ==
  /\ At("rect")
  /\ Dispatch
  /\ Push(<<RectPrim(Top.tw.cur, Top.groups) @@ Made(Top.tw.cur, 1)>>)
  /\ Goto(nextNode(Top.tw))
  /\ UNCHANGED <<nodes, nextId, status, error, groupOf, localGroups>>

\* walkers.path: randomId() is drawn before the switch and again at idx 0.
Path ==
  /\ At("path")
  /\ Dispatch
  /\ Push(PathElements(Top.tw.cur, Top.groups, nextId + 1))
  /\ nextId' = nextId + PathIdsDrawn(Top.tw.cur)
  /\ localGroups' =
       Append(localGroups, [element |-> Top.tw.cur, id |-> nextId + 1])
  /\ Goto(nextNode(Top.tw))
  /\ UNCHANGED <<nodes, status, error, groupOf>>

Next ==
  \/ WalkNull
  \/ WalkNoHandler
  \/ Svg
  \/ G
  \/ GResume
  \/ Use
  \/ UseResume
  \/ Circle
  \/ Ellipse
  \/ Line
  \/ Polygon
  \/ Polyline
  \/ Text
  \/ Rect
  \/ Path

(* ------------------------------------------------------------- documents *)

El(tag, parent, attrs) == Node(tag, parent, attrs, "")

\* The Document node and the root svg element every document starts with.
DocHead == <<El("#document", 0, EmptyMap), El("svg", 1, EmptyMap)>>

\* Element trees.  A tree of k elements below the root svg is given by the
\* parent of each of the nodes 3..k+2 (pv[j] is the parent of node j+2); in
\* document order the parent of a node is the node before it or one of
\* that node's ancestors, the root svg at the most.
RECURSIVE AncestorsOrSelf(_, _)
AncestorsOrSelf(pv, n) ==
  IF n <= 2 THEN {2} ELSE {n} \cup AncestorsOrSelf(pv, pv[n - 2])

RECURSIVE TreeParents(_)
TreeParents(k) ==
  IF k = 0 THEN {<<>>}
  ELSE UNION {{Append(pv, q) : q \in AncestorsOrSelf(pv, Len(pv) + 2)} :
                pv \in TreeParents(k - 1)}

TreeTags == {"svg", "g", "circle", "line", "title"}

TreeDoc(pv, tags) ==
  DocHead \o [j \in 1..Len(pv) |-> El(tags[j], pv[j], EmptyMap)]

\* The document is one of the element trees of up to MaxNodes elements.
TreeInit ==
  \E k \in 0..MaxNodes : \E pv \in TreeParents(k) :
    \E tags \in [1..k -> TreeTags] : nodes = TreeDoc(pv, tags)

\* The attributes a choice of values declares: those not left out.
Declared(f) == [a \in {b \in DOMAIN f : f[b] # Absent} |-> f[a]]

\* An element with the children it needs: a text element gets a text node
\* and a tspan, any other element none.  self is the index of the element.
Subtree(tag, parent, attrs, self, content) ==
  <<El(tag, parent, attrs)>>
  \o (IF tag = "text"
      THEN <<Node("#text", self, EmptyMap, content),
             Node("tspan", self, [fill |-> "blue"], "yo")>>
      ELSE <<>>)

\* The shapes of the group documents.
ShapeKinds ==
  { [tag |-> "rect",
     attrs |-> [x |-> "1", y |-> "2", width |-> "3", height |-> "2"]],
    [tag |-> "rect", attrs |-> [width |-> "1", rx |-> "1"]],
    [tag |-> "circle", attrs |-> [r |-> "1", cx |-> "2", cy |-> "2"]],
    [tag |-> "ellipse", attrs |-> [rx |-> "1", ry |-> "2", fill |-> "red"]],
    [tag |-> "polygon", attrs |-> [points |-> "0,0 2,0 2,2"]],
    [tag |-> "polygon", attrs |-> EmptyMap],
    [tag |-> "polyline",
     attrs |-> [points |-> "3,0 5,0 5,2 3,2", fill |-> "none"]],
    [tag |-> "polyline", attrs |-> [points |-> "0,0 2,0 2,2"]],
    [tag |-> "polyline", attrs |-> EmptyMap],
    [tag |-> "text", attrs |-> [x |-> "1", y |-> "5", fill |-> "red"]],
    [tag |-> "text", attrs |-> ("font-size" :> "3")],
    [tag |-> "path",
     attrs |-> [d |-> "M0 0L2 0L2 2ZM1 1L2 2L2 1Z", fill |-> "red"]],
    [tag |-> "path",
     attrs |-> [d |-> "M0 0L2 0L2 2ZM1 1L2 2L2 1Z"]
               @@ ("fill-rule" :> "evenodd")] }

GroupAttrs ==
  { EmptyMap,
    [stroke |-> "green"] @@ ("stroke-width" :> "2"),
    [transform |-> "translate(1,2)"],
    [transform |-> "scale(-1,1)", fill |-> "gray"] }

\* Two sibling groups with one shape each.
GroupDoc(gattrs, A, B, content) ==
  LET a == Subtree(A.tag, 3, A.attrs, 4, content)
      g2 == 4 + Len(a)
  IN DocHead \o <<El("g", 2, gattrs)>> \o a \o <<El("g", 2, EmptyMap)>>
       \o Subtree(B.tag, g2, B.attrs, g2 + 1, content)

GroupInit ==
  \E gattrs \in GroupAttrs : \E A \in ShapeKinds : \E B \in ShapeKinds :
    \E content \in {"hi", "excalidraw"} :
      nodes = GroupDoc(gattrs, A, B, content)

\* A path in a group, followed by a second path.
PathDoc(gattrs, pattrs, qattrs) ==
  DocHead \o <<El("g", 2, gattrs), El("path", 3, pattrs),
               El("path", 2, qattrs)>>

PathData ==
  { Absent, "M0 0L2 0L2 2Z", "M0 0L2 0L2 2ZM1 1L2 2L2 1Z",
    "M0 0L2 0L2 2ZM3 0L5 0L5 2L3 2Z",
    "M1 1L2 2L2 1ZM0 0L2 0L2 2ZM3 0L5 0L5 2L3 2Z",
    "M0 0L2 0L2 2ZM1 1L2 2L2 1ZM1 1L2 2L2 1Z" }

PathInit ==
  \E gattrs \in GroupAttrs :
    \E fill \in {Absent, "none", "red", "#FFFFFF"} :
      \E rule \in {Absent, "nonzero", "evenodd", "bogus"} :
        \E stroke \in {Absent, "blue"} : \E width \in {Absent, "3"} :
          \E d \in PathData : \E transform \in {Absent, "scale(-1,1)"} :
            \E rule2 \in {Absent, "evenodd"} :
              nodes = PathDoc(gattrs,
                        Declared([fill |-> fill, stroke |-> stroke, d |-> d,
                                  transform |-> transform]
                                 @@ ("fill-rule" :> rule)
                                 @@ ("stroke-width" :> width)),
                        Declared([d |-> "M0 0L2 0L2 2ZM1 1L2 2L2 1Z"]
                                 @@ ("fill-rule" :> rule2)))

\* A template in a defs or a g, a use element in a group, and a circle.
UseDoc(holder, ttag, tattrs, uattrs) ==
  LET t == Subtree(ttag, 3, tattrs, 4, "hi")
      g == 4 + Len(t)
  IN DocHead \o <<El(holder, 2, EmptyMap)>> \o t
       \o <<El("g", 2, EmptyMap), El("use", g, uattrs),
            El("circle", 2, [r |-> "1"])>>

TemplateTags ==
  {"circle", "rect", "path", "g", "text", "line", "symbol", "polygon"}

\* What a use element declares besides its reference.
UseExtras ==
  { EmptyMap, [id |-> "u"], [class |-> "id"], [fill |-> "id"],
    [fill |-> "blue", x |-> "5"],
    [id |-> "u", class |-> "k", fill |-> "blue", x |-> "5"] }

UseInit ==
  \E holder \in {"defs", "g"} : \E ttag \in TemplateTags :
    \E tid \in {Absent, "t"} : \E tfill \in {Absent, "red"} :
      \E tx \in {Absent, "1"} :
        \E href \in {Absent, "", "#t", "#nope", "circle"} :
          \E xlink \in {Absent, "#t"} : \E extra \in UseExtras :
            nodes = UseDoc(holder, ttag,
                      Declared([id |-> tid, fill |-> tfill, x |-> tx,
                                d |-> IF ttag = "path"
                                      THEN "M0 0L2 0L2 2ZM1 1L2 2L2 1Z"
                                      ELSE Absent]),
                      extra @@ Declared([href |-> href]
                                        @@ ("xlink:href" :> xlink)))

\* A use element that refers to a second use element, which refers to a
\* circle, to itself or to nothing.
ChainDoc(uattrs, vattrs) ==
  DocHead \o <<El("use", 2, uattrs), El("defs", 2, EmptyMap),
               El("use", 4, [id |-> "u"] @@ vattrs),
               El("circle", 4, [id |-> "t", r |-> "1"])>>

RefAttrs(sel) == {[href |-> sel], ("xlink:href" :> sel)}

ChainInit ==
  \E uattrs \in RefAttrs("#u") :
    \E vattrs \in RefAttrs("#t") \cup RefAttrs("#u") \cup RefAttrs("#nope") :
      nodes = ChainDoc(uattrs, vattrs)

DocInit == TreeInit \/ GroupInit \/ PathInit \/ UseInit \/ ChainInit

(* ------------------------------------------------------- the state machine *)

\* The conversion starts with walk(args, tw.nextNode()) on a walker of the
\* document, which puts it at the root svg element, with an empty scene and
\* no groups.
Init ==
  /\ DocInit
  /\ stack = <<Frame([root |-> 1, cur |-> 2], 1, <<>>, 2)>>
  /\ scenes = <<<<>>>>
  /\ nextId = 1
  /\ status = "running"
  /\ error = ""
  /\ dispatched = <<>>
  /\ groupOf = <<>>
  /\ localGroups = <<>>

Spec == Init /\ [][Next]_vars

(* ---------------------------------------------------------------- claims *)

Range(f) == {f[i] : i \in DOMAIN f}

\* The elements of the document (the clones of use elements come after).
DocNodes == {n \in 1..Len(nodes) : nodes[n].origin = 0}

Clones == {n \in 1..Len(nodes) : nodes[n].origin # 0}

\* The primitives of the output scene, and of all scenes.
OutputPrims == Range(scenes[1])

AllPrims == UNION {Range(scenes[s]) : s \in 1..Len(scenes)}

ShapeTags ==
  {"rect", "circle", "ellipse", "polygon", "polyline", "text", "path"}

\* C1: every primitive made from a shape element nested directly in a g
\* lists the identifier of that g's Group in its groupIds, and no primitive
\* made from an element outside the g lists it.
C1_GroupMembership ==
  \A grp \in Range(groupOf) : \A p \in OutputPrims :
    /\ (nodes[p.src].tag \in ShapeTags /\ ParentOf(p.src) = grp.element)
         => grp.id \in Range(p.groupIds)
    /\ ~InSubtree(p.src, grp.element) => grp.id \notin Range(p.groupIds)

\* The primitives of the sub-polygons of a path element handled as
\* fill-rule nonzero.
NonzeroPrims ==
  {p \in AllPrims : /\ nodes[p.el].tag = "path"
                    /\ Attr(p.el, "fill-rule") \in {Absent, "nonzero"}}

\* The primitive of the first sub-polygon of the path p was made from.
FirstOf(p) == CHOOSE q \in AllPrims : q.el = p.el /\ q.sub = 1

\* The fill a path declares, as a background color.
DeclaredFill(el) ==
  IF Attr(el, "fill") \in {Absent, "none"} THEN "transparent"
  ELSE Attr(el, "fill")

\* C2: the primitive of sub-polygon i of a fill-rule nonzero path has the
\* background #FFFFFF when its winding order differs from that of the
\* primitive of sub-polygon 0, and otherwise the fill the path declares
\* ("none" and a missing fill read as "transparent"), whatever presentation
\* attributes the path and the enclosing groups declare.
C2_HoleBackground ==
  \A p \in NonzeroPrims :
    p.backgroundColor =
      IF getWindingOrder(p.points) # getWindingOrder(FirstOf(p).points)
      THEN "#FFFFFF" ELSE DeclaredFill(p.el)

\* A third sub-polygon that is a hole although the one before it is one as
\* well, of a path that declares a fill and a stroke inside a group that
\* declares a fill, next to a sub-polygon that keeps the declared fill.
C2_Witness ==
  \E p \in NonzeroPrims : \E q \in NonzeroPrims :
    /\ p.el = q.el /\ p.sub = 3 /\ q.sub = 2
    /\ p.backgroundColor = "#FFFFFF" /\ q.backgroundColor = "#FFFFFF"
    /\ Attr(p.el, "fill") = "red" /\ Attr(p.el, "stroke") = "blue"
    /\ Attr(ParentOf(p.el), "fill") = "gray"
    /\ FirstOf(p).backgroundColor = "red"

\* C3: every primitive of a sub-polygon of a fill-rule nonzero path has
\* stroke width 0 and the stroke color #00000000.
C3_NoStroke ==
  \A p \in NonzeroPrims : p.strokeWidth = 0 /\ p.strokeColor = "#00000000"

\* The primitives of a path element handled as nonzero or evenodd.
FilledPathPrims ==
  {p \in AllPrims :
     /\ nodes[p.el].tag = "path"
     /\ Attr(p.el, "fill-rule") \in {Absent, "nonzero", "evenodd"}}

\* C4: the primitives of a nonzero or evenodd path all list the localGroup
\* generated for that path, and the primitives of no other path list it.
C4_PathGroup ==
  \A loc \in Range(localGroups) : \A p \in FilledPathPrims :
    IF p.el = loc.element THEN loc.id \in Range(p.groupIds)
    ELSE loc.id \notin Range(p.groupIds)

\* The merge the reference policy asks for: the id of the template; the
\* value of the use element for the attributes of the override set it
\* declares; else the template's value when it declares the attribute; else
\* the value of the use element.
PolicyAttr(defEl, useEl, a) ==
  IF a = "id" THEN Attr(defEl, a)
  ELSE IF a \in allwaysPassedUseAttrs /\ Attr(useEl, a) # Absent
    THEN Attr(useEl, a)
  ELSE IF Attr(defEl, a) # Absent THEN Attr(defEl, a)
  ELSE Attr(useEl, a)

\* C5: the element built for a use reference carries, for every attribute
\* name, the value of the reference policy.
C5_MergePolicy ==
  \A c \in Clones : \A a \in AttrNames :
    Attr(c, a) = PolicyAttr(nodes[c].def, nodes[c].use, a)

\* The reference a use element follows, and the element it leads to.
RefOf(useEl) ==
  IF Falsy(Attr(useEl, "href")) THEN Attr(useEl, "xlink:href")
  ELSE Attr(useEl, "href")

NoStepAfterAbort == status = "error" => UNCHANGED vars

\* A scene changes only as the scene or the tempScene of the running call.
OnlyOwnScenes ==
  Running =>
    \A s \in 1..Len(scenes) :
      s \notin {Top.scene, Top.temp} => scenes'[s] = scenes[s]

\* The scene of a walkers.use that waits for its nested walk stays as it is.
WaitingUseUntouched ==
  \A i \in 1..(Len(stack) - 1) :
    stack[i].pc = "use" => scenes'[stack[i].scene] = scenes[stack[i].scene]

\* The first half of walkers.use appends nothing, and aborts when there is
\* no reference or the reference matches no element.
UseStartOutcome ==
  At("use") =>
    /\ \A s \in 1..Len(scenes) : scenes'[s] = scenes[s]
    /\ (Falsy(RefOf(Top.tw.cur)) \/ querySelector(RefOf(Top.tw.cur)) = 0)
         => status' = "error"

\* The second half aborts and appends nothing when the tempScene is empty,
\* and else appends the last primitive of the tempScene, and only that.
UseEndOutcome ==
  (Running /\ Top.pc = "use") =>
    IF scenes[Top.temp] = <<>>
    THEN status' = "error" /\ scenes' = scenes
    ELSE /\ status' = "running"
         /\ scenes'[Top.scene] =
              Append(scenes[Top.scene], Last(scenes[Top.temp]))
         /\ scenes'[Top.temp] = Front(scenes[Top.temp])

\* C6: handling a use element either aborts the conversion and appends
\* nothing, or appends exactly one primitive, the last of the tempScene, to
\* the scene; what stays in a tempScene reaches no other scene, and after an
\* abort nothing more happens.
C6_UseOutcome ==
  [][/\ NoStepAfterAbort
     /\ OnlyOwnScenes
     /\ WaitingUseUntouched
     /\ UseStartOutcome
     /\ UseEndOutcome]_vars

\* The conversion is over, one primitive made for a use element is in the
\* output scene and another one made for it stayed in its tempScene.
C6_Witness ==
  /\ status = "done"
  /\ \E p \in OutputPrims : \E s \in 2..Len(scenes) : \E q \in Range(scenes[s]) :
       nodes[p.el].origin # 0 /\ q.el = p.el /\ q # p

\* The elements of the document with an unsupported tag (line among them).
UnsupportedEls ==
  {n \in DocNodes : nodes[n].tag \notin SUPPORTED_TAGS \cup {"#document", "#text"}}

\* The elements with a supported tag all of whose ancestors have one.
RECURSIVE Reachable(_)
Reachable(n) ==
  /\ nodes[n].tag \in SUPPORTED_TAGS
  /\ ParentOf(n) = 1 \/ Reachable(ParentOf(n))

ReachableEls == {n \in DocNodes \ {1} : Reachable(n)}

\* C7: an element with an unsupported tag, and a line element, is handed to
\* no handler and makes no primitive, and when the conversion is over the
\* reachable elements that follow it outside its subtree were dispatched.
C7_NoOpAdvances ==
  \A u \in UnsupportedEls :
    /\ u \notin Range(dispatched)
    /\ \A p \in AllPrims : p.src # u
    /\ status = "done" =>
         \A e \in ReachableEls :
           (e > u /\ ~InSubtree(e, u)) => e \in Range(dispatched)

\* The g elements that enclose a node, outermost first.
RECURSIVE EnclosingGs(_)
EnclosingGs(n) ==
  IF ParentOf(n) = 0 THEN <<>>
  ELSE EnclosingGs(ParentOf(n))
       \o (IF nodes[ParentOf(n)].tag = "g" THEN <<ParentOf(n)>> ELSE <<>>)

\* C8: whenever a node is handed to a handler, and while the handler waits
\* for a nested walk, the groups of the call are the Group records of the g
\* elements that enclose the node (for a merged element: the use element of
\* the document), outermost first, one record per g element.
C8_GroupChain ==
  /\ \A i \in 1..Len(stack) :
       stack[i].node # 0 =>
         /\ [k \in 1..Len(stack[i].groups) |-> stack[i].groups[k].element]
              = EnclosingGs(Origin(stack[i].node))
         /\ Range(stack[i].groups) \subseteq Range(groupOf)
  /\ \A j, k \in 1..Len(groupOf) :
       (groupOf[j].element = groupOf[k].element \/ groupOf[j].id = groupOf[k].id)
         => j = k

\* An element that follows the subtrees of two nested groups is handed to
\* its handler with no group, after an element inside them was handed to
\* its handler with both.
C8_Witness ==
  /\ Running /\ Top.pc = "walk" /\ Top.node # 0
  /\ nodes[Top.node].tag = "circle"
  /\ Top.groups = <<>>
  /\ Len(groupOf) = 2
  /\ \E p \in OutputPrims : Len(p.groupIds) = 2

IsDocNode(n) == n \in DocNodes

\* C9: when the conversion ends without an error, the elements dispatched
\* are the reachable elements, each once, in document order, and the
\* primitives are in the document order of their elements.
C9_EveryElementOnce ==
  status = "done" =>
    /\ SelectSeq(dispatched, IsDocNode) = Sorted(ReachableEls)
    /\ \A i, j \in 1..Len(scenes[1]) :
         i < j => scenes[1][i].src <= scenes[1][j].src

\* The number of reference hops from a node until an element that is no use
\* element or a reference that leads nowhere; fuel bounds the hops followed.
RECURSIVE Hops(_, _)
Hops(n, fuel) ==
  IF nodes[n].tag # "use" \/ Falsy(RefOf(n)) \/ querySelector(RefOf(n)) = 0
  THEN 0
  ELSE IF fuel = 0 THEN 1
  ELSE 1 + Hops(querySelector(RefOf(n)), fuel - 1)

UseEls == {n \in DocNodes : nodes[n].tag = "use"}

\* No use element reaches itself: every chain ends within as many hops as
\* there are use elements.
Acyclic == \A u \in UseEls : Hops(u, Len(nodes)) <= Cardinality(UseEls)

LongestChain == Max({0} \cup {Hops(u, Len(nodes)) : u \in UseEls})

\* The number of use resolutions that are in progress, one inside the other.
UseDepth == Cardinality({i \in 1..Len(stack) : stack[i].pc = "use"})

\* C10: in a document without a reference cycle the number of nested use
\* resolutions stays within the length of the longest reference chain, and
\* the conversion does not end by exhausting the stack.
C10_BoundedResolution ==
  Acyclic => UseDepth <= LongestChain /\ error # "RangeError"

====
